---- MODULE Spec2Model ----
(***************************************************************************)
(* cdiff: the unified-diff parser (DiffParser._parse_udiff), the per-hunk  *)
(* alignment (Hunk.mdiff) and the two renderers (Diff.markup_traditional,   *)
(* Diff.markup_side_by_side) of src/src/cdiff.py.                           *)
(*                                                                         *)
(* A text line is a sequence of characters; a character is a one-letter    *)
(* string, and the control characters are the named strings below.         *)
(***************************************************************************)
EXTENDS Integers, Sequences, FiniteSets, TLC

VARIABLES input, stream, pc, error, out_diffs, headers, old_path, new_path,
          hunks, hunk, self_diffs, mode, width_arg, output, refs

vars == <<input, stream, pc, error, out_diffs, headers, old_path, new_path,
          hunks, hunk, self_diffs, mode, width_arg, output, refs>>

parser_locals == <<out_diffs, headers, old_path, new_path, hunks, hunk, refs>>

(***************************************************************************)
(* Bounds of the model.                                                    *)
(***************************************************************************)
\* the inputs: a preamble, then every sequence of at most MaxLen lines of
\* LineShapes
MaxLen == 3
\* the patches: one hunk of at most MaxBody lines of BodyShapes
MaxBody == 2

(***************************************************************************)
(* Characters and lines.                                                   *)
(***************************************************************************)
ESC == "ESC"      \* \x1b
NUL == "NUL"      \* \x00
SOH == "SOH"      \* \x01
NL  == "\n"
TAB == "\t"

\* Python's None
None == <<"None">>

Min(a, b) == IF a < b THEN a ELSE b
Max(a, b) == IF a < b THEN b ELSE a

RECURSIVE Concat(_)
\* ''.join(list) / the concatenation of a list of lists, by halves
Concat(ss) ==
    IF Len(ss) = 0 THEN <<>>
    ELSE IF Len(ss) = 1 THEN ss[1]
    ELSE Concat(SubSeq(ss, 1, Len(ss) \div 2))
         \o Concat(SubSeq(ss, (Len(ss) \div 2) + 1, Len(ss)))

\* str.startswith
StartsWith(line, prefix) ==
    /\ Len(line) >= Len(prefix)
    /\ SubSeq(line, 1, Len(prefix)) = prefix

(***************************************************************************)
(* Udiff: the classification of a line.                                    *)
(***************************************************************************)
is_old_path(line) == StartsWith(line, <<"-", "-", "-", " ">>)

is_new_path(line) == StartsWith(line, <<"+", "+", "+", " ">>)

is_hunk_header(line) == StartsWith(line, <<"@", "@", " ", "-">>)

is_old(line) == StartsWith(line, <<"-">>) /\ ~is_old_path(line)

is_new(line) == StartsWith(line, <<"+">>) /\ ~is_new_path(line)

is_common(line) == StartsWith(line, <<" ">>)

is_eof(line) == StartsWith(line, <<"\\">>)

\* re.match(r'^[^+@\\ -]', line)
is_header(line) ==
    /\ Len(line) >= 1
    /\ line[1] \notin {"+", "@", "\\", " ", "-"}

(***************************************************************************)
(* Hunk and Diff objects.                                                  *)
(***************************************************************************)
\* Hunk.__init__
Hunk(hunk_header) == [hunk_header |-> hunk_header, hunk_list |-> <<>>]

\* the value of the parser's local `hunk` while it is None
NoHunk == [hunk_header |-> None, hunk_list |-> <<>>]

\* Hunk.append putting the line first: hunk_list.insert(0, ...)
HunkPrepend(h, attr, line) ==
    [h EXCEPT !.hunk_list = <<(<<attr, line>>)>> \o @]

\* Hunk.append
HunkAppend(h, attr, line) ==
    [h EXCEPT !.hunk_list = Append(@, <<attr, line>>)]

RECURSIVE SelectAttr(_, _)
\* the lines of a hunk list whose attr is not `skip`
SelectAttr(hl, skip) ==
    IF hl = <<>> THEN <<>>
    ELSE IF Head(hl)[1] # skip
         THEN <<Head(hl)[2]>> \o SelectAttr(Tail(hl), skip)
         ELSE SelectAttr(Tail(hl), skip)

\* Hunk._get_old_text with the test of _get_new_text: attr != '-'
get_old_text_as_new(h) == SelectAttr(h.hunk_list, "-")

\* Hunk._get_old_text
get_old_text(h) == SelectAttr(h.hunk_list, "+")

\* Hunk._get_new_text
get_new_text(h) == SelectAttr(h.hunk_list, "-")

\* Diff.__init__
Diff(hs, op, np, hks) ==
    [headers |-> hs, old_path |-> op, new_path |-> np, hunks |-> hks]

(***************************************************************************)
(* difflib.SequenceMatcher, as Hunk.mdiff uses it through difflib._mdiff.  *)
(* Indices are Python's: 0-based, ranges half-open; x[i + 1] is Python's   *)
(* x[i].  `junk` is the set of elements isjunk accepts.                    *)
(***************************************************************************)
RECURSIVE RunLen(_, _, _, _, _, _, _)
\* j2len[j] after row i: the length of the junk-free match ending with
\* a[i] and b[j] inside the window
RunLen(a, b, i, j, alo, blo, junk) ==
    IF i < alo \/ j < blo THEN 0
    ELSE IF a[i + 1] = b[j + 1] /\ b[j + 1] \notin junk
         THEN 1 + RunLen(a, b, i - 1, j - 1, alo, blo, junk)
         ELSE 0

RECURSIVE ExtendBack(_, _, _, _, _, _, _)
\* while besti > alo and bestj > blo and isbjunk(b[bestj-1]) == wantjunk ...
ExtendBack(a, b, m, alo, blo, junk, wantjunk) ==
    IF /\ m[1] > alo /\ m[2] > blo
       /\ (b[m[2]] \in junk) = wantjunk
       /\ a[m[1]] = b[m[2]]
    THEN ExtendBack(a, b, <<m[1] - 1, m[2] - 1, m[3] + 1>>, alo, blo, junk, wantjunk)
    ELSE m

RECURSIVE ExtendFwd(_, _, _, _, _, _, _)
\* while besti+bestsize < ahi and bestj+bestsize < bhi and ...
ExtendFwd(a, b, m, ahi, bhi, junk, wantjunk) ==
    IF /\ m[1] + m[3] < ahi /\ m[2] + m[3] < bhi
       /\ (b[m[2] + m[3] + 1] \in junk) = wantjunk
       /\ a[m[1] + m[3] + 1] = b[m[2] + m[3] + 1]
    THEN ExtendFwd(a, b, <<m[1], m[2], m[3] + 1>>, ahi, bhi, junk, wantjunk)
    ELSE m

\* find_longest_match: the pairs (i, j) the two loops visit
Ends(alo, ahi, blo, bhi) == (alo..(ahi - 1)) \X (blo..(bhi - 1))

\* max(S) of a set of numbers
SetMax(S) == CHOOSE n \in S : \A m \in S : m <= n

\* find_longest_match: bestsize after the loops, the longest junk-free run
BestSize(a, b, alo, ahi, blo, bhi, junk) ==
    SetMax({0} \cup {RunLen(a, b, e[1], e[2], alo, blo, junk) :
                       e \in Ends(alo, ahi, blo, bhi)})

\* find_longest_match: `k > bestsize` is strict, so of the runs of length
\* bestsize the one whose end the loops (i outer, j ascending) meet first wins
FirstEnd(ends) ==
    CHOOSE e \in ends :
        \A o \in ends : e[1] < o[1] \/ (e[1] = o[1] /\ e[2] <= o[2])

\* find_longest_match: (besti, bestj, bestsize) after "find longest junk-free
\* match"; e is the end of the winning run
StartOf(e, k) == <<e[1] - k + 1, e[2] - k + 1, k>>

LongestOfSize(a, b, alo, ahi, blo, bhi, junk, k) ==
    IF k = 0 THEN <<alo, blo, 0>>
    ELSE StartOf(FirstEnd({e \in Ends(alo, ahi, blo, bhi) :
                             RunLen(a, b, e[1], e[2], alo, blo, junk) = k}), k)

LongestJunkFree(a, b, alo, ahi, blo, bhi, junk) ==
    LongestOfSize(a, b, alo, ahi, blo, bhi, junk,
                  BestSize(a, b, alo, ahi, blo, bhi, junk))

\* SequenceMatcher.find_longest_match: Match(besti, bestj, bestsize); the
\* best junk-free match is extended by non-junk, then by junk, on each end
find_longest_match(a, b, alo, ahi, blo, bhi, junk) ==
    ExtendFwd(a, b,
        ExtendBack(a, b,
            ExtendFwd(a, b,
                ExtendBack(a, b,
                    LongestJunkFree(a, b, alo, ahi, blo, bhi, junk),
                    alo, blo, junk, FALSE),
                ahi, bhi, junk, FALSE),
            alo, blo, junk, TRUE),
        ahi, bhi, junk, TRUE)

RECURSIVE BlocksIn(_, _, _, _, _, _, _)
RECURSIVE BlocksAround(_, _, _, _, _, _, _, _)
\* get_matching_blocks: x is the longest match of the window; the windows
\* left and right of it are searched in turn
BlocksAround(a, b, alo, ahi, blo, bhi, junk, x) ==
    IF x[3] = 0 THEN <<>>
    ELSE (IF alo < x[1] /\ blo < x[2]
          THEN BlocksIn(a, b, alo, x[1], blo, x[2], junk) ELSE <<>>)
         \o <<x>>
         \o (IF x[1] + x[3] < ahi /\ x[2] + x[3] < bhi
             THEN BlocksIn(a, b, x[1] + x[3], ahi, x[2] + x[3], bhi, junk)
             ELSE <<>>)

\* get_matching_blocks: the blocks of the window, sorted
BlocksIn(a, b, alo, ahi, blo, bhi, junk) ==
    BlocksAround(a, b, alo, ahi, blo, bhi, junk,
                 find_longest_match(a, b, alo, ahi, blo, bhi, junk))

RECURSIVE Collapse(_, _)
\* get_matching_blocks: adjacent equal blocks are collapsed
Collapse(blocks, cur) ==
    IF blocks = <<>> THEN (IF cur[3] > 0 THEN <<cur>> ELSE <<>>)
    ELSE LET nx == Head(blocks)
         IN  IF cur[1] + cur[3] = nx[1] /\ cur[2] + cur[3] = nx[2]
             THEN Collapse(Tail(blocks), <<cur[1], cur[2], cur[3] + nx[3]>>)
             ELSE (IF cur[3] > 0 THEN <<cur>> ELSE <<>>)
                  \o Collapse(Tail(blocks), nx)

\* SequenceMatcher.get_matching_blocks, with the closing sentinel
get_matching_blocks(a, b, junk) ==
    Collapse(BlocksIn(a, b, 0, Len(a), 0, Len(b), junk), <<0, 0, 0>>)
        \o <<(<<Len(a), Len(b), 0>>)>>

RECURSIVE OpcodesFrom(_, _, _)
\* SequenceMatcher.get_opcodes: (tag, i1, i2, j1, j2)
OpcodesFrom(blocks, i, j) ==
    IF blocks = <<>> THEN <<>>
    ELSE LET ai == Head(blocks)[1]
             bj == Head(blocks)[2]
             size == Head(blocks)[3]
             tag == IF i < ai /\ j < bj THEN "replace"
                    ELSE IF i < ai THEN "delete"
                    ELSE IF j < bj THEN "insert"
                    ELSE ""
         IN  (IF tag # "" THEN <<(<<tag, i, ai, j, bj>>)>> ELSE <<>>)
             \o (IF size > 0
                 THEN <<(<<"equal", ai, ai + size, bj, bj + size>>)>> ELSE <<>>)
             \o OpcodesFrom(Tail(blocks), ai + size, bj + size)

get_opcodes(a, b, junk) == OpcodesFrom(get_matching_blocks(a, b, junk), 0, 0)

RECURSIVE SumSizes(_)
SumSizes(blocks) ==
    IF blocks = <<>> THEN 0 ELSE Head(blocks)[3] + SumSizes(Tail(blocks))

\* SequenceMatcher.ratio as the fraction <<2 * matches, length>>; two empty
\* sequences have ratio 1
ratio(a, b, junk) ==
    IF Len(a) + Len(b) = 0 THEN <<1, 1>>
    ELSE <<2 * SumSizes(get_matching_blocks(a, b, junk)), Len(a) + Len(b)>>

\* p > q for fractions with positive denominators
FracGreater(p, q) == p[1] * q[2] > q[1] * p[2]

(***************************************************************************)
(* difflib.Differ (ndiff).  A line of the delta is [tag, text]: the tag is *)
(* its first character, the text what follows the two-character prefix;   *)
(* the text of a "?" line is the tag string before trailing blanks are    *)
(* stripped.                                                              *)
(***************************************************************************)
\* IS_CHARACTER_JUNK: ch in " \t"
CharJunk == {" ", TAB}

\* ndiff(linejunk=None): no line is junk
LineJunk == {}

DLine(tag, text) == [tag |-> tag, text |-> text]

RECURSIVE dump(_, _, _, _)
\* Differ._dump
dump(tag, x, lo, hi) ==
    IF lo >= hi THEN <<>>
    ELSE <<DLine(tag, x[lo + 1])>> \o dump(tag, x, lo + 1, hi)

\* Differ._plain_replace: the shorter block is dumped first
plain_replace(a, alo, ahi, b, blo, bhi) ==
    IF bhi - blo < ahi - alo
    THEN dump("+", b, blo, bhi) \o dump("-", a, alo, ahi)
    ELSE dump("-", a, alo, ahi) \o dump("+", b, blo, bhi)

\* Differ._fancy_replace: one pair (a[i], b[j]) of the search; r is
\* cruncher.ratio(), an upper bound of which the two quick ratios are
BestOf(st, i, j, ai, bj, r) ==
    IF ai = bj
    THEN (IF st.eqi = -1 THEN [st EXCEPT !.eqi = i, !.eqj = j] ELSE st)
    ELSE IF FracGreater(r, st.best_ratio)
         THEN [st EXCEPT !.best_ratio = r, !.best_i = i, !.best_j = j]
         ELSE st

RECURSIVE BestPair(_, _, _, _, _, _, _, _)
\* Differ._fancy_replace: the search for the best-matching pair, for j in
\* range(blo, bhi), for i in range(alo, ahi); idx counts the pairs visited
BestPair(a, alo, ahi, b, blo, bhi, idx, st) ==
    IF idx >= (ahi - alo) * (bhi - blo) THEN st
    ELSE BestPair(a, alo, ahi, b, blo, bhi, idx + 1,
             BestOf(st,
                    alo + (idx % (ahi - alo)),
                    blo + (idx \div (ahi - alo)),
                    a[alo + (idx % (ahi - alo)) + 1],
                    b[blo + (idx \div (ahi - alo)) + 1],
                    ratio(a[alo + (idx % (ahi - alo)) + 1],
                          b[blo + (idx \div (ahi - alo)) + 1], CharJunk)))

\* ch * n
Repeat(ch, n) == [p \in 1..n |-> ch]

RECURSIVE TagsOf(_, _)
\* Differ._fancy_replace: atags (side = 0) or btags (side = 1)
TagsOf(ops, side) ==
    IF ops = <<>> THEN <<>>
    ELSE LET op == Head(ops)
             la == op[3] - op[2]
             lb == op[5] - op[4]
             here ==
                IF op[1] = "replace"
                THEN Repeat("^", IF side = 0 THEN la ELSE lb)
                ELSE IF op[1] = "delete"
                THEN (IF side = 0 THEN Repeat("-", la) ELSE <<>>)
                ELSE IF op[1] = "insert"
                THEN (IF side = 0 THEN <<>> ELSE Repeat("+", lb))
                ELSE Repeat(" ", IF side = 0 THEN la ELSE lb)
         IN  here \o TagsOf(Tail(ops), side)

\* str.rstrip() of a tag string leaves something: it holds a marker
HasMarks(tags) == \E p \in 1..Len(tags) : tags[p] \in {"+", "-", "^"}

\* Differ._qformat
qformat(aline, bline, atags, btags) ==
    <<DLine("-", aline)>>
    \o (IF HasMarks(atags) THEN <<DLine("?", atags)>> ELSE <<>>)
    \o <<DLine("+", bline)>>
    \o (IF HasMarks(btags) THEN <<DLine("?", btags)>> ELSE <<>>)

\* Differ._fancy_replace: the '-', '?', '+', '?' quad of the synched lines,
\* ops the opcodes of the pair
intraline(aelt, belt, ops) ==
    qformat(aelt, belt, TagsOf(ops, 0), TagsOf(ops, 1))

RECURSIVE fancy_replace(_, _, _, _, _, _)
RECURSIVE fancy_helper(_, _, _, _, _, _)
RECURSIVE fancy_sync(_, _, _, _, _, _, _)
\* Differ._fancy_replace, after the search: st holds best_ratio, best_i,
\* best_j, eqi and eqj (-1 for None); cutoff 0.75 is 3/4
fancy_sync(a, alo, ahi, b, blo, bhi, st) ==
    IF FracGreater(<<3, 4>>, st.best_ratio)
    THEN IF st.eqi = -1
         THEN plain_replace(a, alo, ahi, b, blo, bhi)
         ELSE fancy_helper(a, alo, st.eqi, b, blo, st.eqj)
              \o <<DLine(" ", a[st.eqi + 1])>>
              \o fancy_helper(a, st.eqi + 1, ahi, b, st.eqj + 1, bhi)
    ELSE fancy_helper(a, alo, st.best_i, b, blo, st.best_j)
         \o intraline(a[st.best_i + 1], b[st.best_j + 1],
                      get_opcodes(a[st.best_i + 1], b[st.best_j + 1], CharJunk))
         \o fancy_helper(a, st.best_i + 1, ahi, b, st.best_j + 1, bhi)

\* Differ._fancy_replace; best_ratio starts at 0.74, 37/100
fancy_replace(a, alo, ahi, b, blo, bhi) ==
    fancy_sync(a, alo, ahi, b, blo, bhi,
               BestPair(a, alo, ahi, b, blo, bhi, 0,
                        [best_ratio |-> <<37, 100>>, best_i |-> -1,
                         best_j |-> -1, eqi |-> -1, eqj |-> -1]))

\* Differ._fancy_helper
fancy_helper(a, alo, ahi, b, blo, bhi) ==
    IF alo < ahi
    THEN (IF blo < bhi THEN fancy_replace(a, alo, ahi, b, blo, bhi)
          ELSE dump("-", a, alo, ahi))
    ELSE IF blo < bhi THEN dump("+", b, blo, bhi)
    ELSE <<>>

RECURSIVE CompareOps(_, _, _)
\* Differ.compare: the delta of each opcode
CompareOps(ops, a, b) ==
    IF ops = <<>> THEN <<>>
    ELSE LET op == Head(ops)
             g == IF op[1] = "replace"
                  THEN fancy_replace(a, op[2], op[3], b, op[4], op[5])
                  ELSE IF op[1] = "delete" THEN dump("-", a, op[2], op[3])
                  ELSE IF op[1] = "insert" THEN dump("+", b, op[4], op[5])
                  ELSE dump(" ", a, op[2], op[3])
         IN  g \o CompareOps(Tail(ops), a, b)

\* difflib.ndiff(a, b, None, IS_CHARACTER_JUNK)
ndiff(a, b) == CompareOps(get_opcodes(a, b, LineJunk), a, b)

(***************************************************************************)
(* difflib._mdiff(fromlines, tolines), context None.  A from/to line is    *)
(* <<line num, line text>>; the line num of a blank line ('', '\n') is 0,  *)
(* and NoLine stands for None.                                             *)
(***************************************************************************)
NoLine == <<>>

BlankLine == <<0, <<NL>>>>

RECURSIVE EmbedFrom(_, _, _)
\* _make_line, format_key '?': every run of one marker character of the "?"
\* line puts '\0' + key before and '\1' after the same columns of the text
EmbedFrom(text, tags, p) ==
    IF p > Len(text) THEN <<>>
    ELSE LET t == IF p <= Len(tags) THEN tags[p] ELSE " "
             marked == t \in {"+", "-", "^"}
             opens == marked /\ (p = 1 \/ tags[p - 1] # t)
             closes == marked /\ (p = Len(tags) \/ tags[p + 1] # t)
         IN  (IF opens THEN <<NUL, t>> ELSE <<>>)
             \o <<text[p]>>
             \o (IF closes THEN <<SOH>> ELSE <<>>)
             \o EmbedFrom(text, tags, p + 1)

\* _make_line(lines, None, side)
MakePlain(l, num) == <<num, l.text>>

\* _make_line(lines, '?', side)
MakeIntra(l, guide, num) == <<num, EmbedFrom(l.text, guide.text, 1)>>

\* _make_line(lines, '+' or '-', side)
MakeWhole(l, key, num) ==
    <<num, <<NUL, key>> \o (IF l.text = <<>> THEN <<" ">> ELSE l.text) \o <<SOH>>>>

Row(from, to, flag) == [from |-> from, to |-> to, flag |-> flag]

\* the first characters of the next four lines of the delta, 'X' past its end
Tags4(lines) ==
    [p \in 1..4 |-> IF p <= Len(lines) THEN lines[p].tag ELSE "X"]

\* lines[n:]
Drop(lines, n) == SubSeq(lines, n + 1, Len(lines))

RECURSIVE BlankRows(_)
\* _line_iterator: "Catch up on the blank lines"
BlankRows(n) ==
    IF n < 0 THEN <<Row(NoLine, BlankLine, TRUE)>> \o BlankRows(n + 1)
    ELSE IF n > 0 THEN <<Row(BlankLine, NoLine, TRUE)>> \o BlankRows(n - 1)
    ELSE <<>>

RECURSIVE line_iterator(_, _, _, _)
\* _mdiff._line_iterator; nf and nt are num_lines[0] and num_lines[1]
line_iterator(lines, pending, nf, nt) ==
    LET s == Tags4(lines)
        pre(t) == SubSeq(s, 1, Len(t)) = t
    IN  IF pre(<<"X">>) THEN BlankRows(pending)
        ELSE IF pre(<<"-", "?", "+", "?">>)
        THEN <<Row(MakeIntra(lines[1], lines[2], nf + 1),
                   MakeIntra(lines[3], lines[4], nt + 1), TRUE)>>
             \o line_iterator(Drop(lines, 4), pending, nf + 1, nt + 1)
        ELSE IF pre(<<"-", "-", "+", "+">>)
        THEN <<Row(MakeWhole(lines[1], "-", nf + 1), NoLine, TRUE)>>
             \o line_iterator(Drop(lines, 1), pending - 1, nf + 1, nt)
        ELSE IF pre(<<"-", "-", "?", "+">>) \/ pre(<<"-", "-", "+">>)
                \/ pre(<<"-", " ">>)
        THEN BlankRows(pending - 1)
             \o <<Row(MakeWhole(lines[1], "-", nf + 1), NoLine, TRUE)>>
             \o line_iterator(Drop(lines, 1), 0, nf + 1, nt)
        ELSE IF pre(<<"-", "+", "?">>)
        THEN <<Row(MakePlain(lines[1], nf + 1),
                   MakeIntra(lines[2], lines[3], nt + 1), TRUE)>>
             \o line_iterator(Drop(lines, 3), pending, nf + 1, nt + 1)
        ELSE IF pre(<<"-", "?", "+">>)
        THEN <<Row(MakeIntra(lines[1], lines[2], nf + 1),
                   MakePlain(lines[3], nt + 1), TRUE)>>
             \o line_iterator(Drop(lines, 3), pending, nf + 1, nt + 1)
        ELSE IF pre(<<"-">>)
        THEN <<Row(MakeWhole(lines[1], "-", nf + 1), NoLine, TRUE)>>
             \o line_iterator(Drop(lines, 1), pending - 1, nf + 1, nt)
        ELSE IF pre(<<"+", "-", "-">>)
        THEN <<Row(NoLine, MakeWhole(lines[1], "+", nt + 1), TRUE)>>
             \o line_iterator(Drop(lines, 1), pending + 1, nf, nt + 1)
        ELSE IF pre(<<"+", " ">>) \/ pre(<<"+", "-">>)
        THEN BlankRows(pending + 1)
             \o <<Row(NoLine, MakeWhole(lines[1], "+", nt + 1), TRUE)>>
             \o line_iterator(Drop(lines, 1), 0, nf, nt + 1)
        ELSE IF pre(<<"+">>)
        THEN <<Row(NoLine, MakeWhole(lines[1], "+", nt + 1), TRUE)>>
             \o line_iterator(Drop(lines, 1), pending + 1, nf, nt + 1)
        ELSE IF pre(<<" ">>)
        THEN <<Row(MakePlain(lines[1], nf + 1),
                   MakePlain(lines[1], nt + 1), FALSE)>>
             \o line_iterator(Drop(lines, 1), pending, nf + 1, nt + 1)
        ELSE <<>>

RECURSIVE line_pair_iterator(_, _, _)
\* _mdiff._line_pair_iterator: fromlines and tolines queue <<line, found_diff>>
line_pair_iterator(rows, fromlines, tolines) ==
    IF fromlines # <<>> /\ tolines # <<>>
    THEN <<Row(Head(fromlines)[1], Head(tolines)[1],
               Head(fromlines)[2] \/ Head(tolines)[2])>>
         \o line_pair_iterator(rows, Tail(fromlines), Tail(tolines))
    ELSE IF rows = <<>> THEN <<>>
    ELSE LET r == Head(rows)
         IN  line_pair_iterator(Tail(rows),
                 IF r.from # NoLine THEN Append(fromlines, <<r.from, r.flag>>)
                 ELSE fromlines,
                 IF r.to # NoLine THEN Append(tolines, <<r.to, r.flag>>)
                 ELSE tolines)

\* difflib._mdiff(fromlines, tolines): rows [from, to, flag]
difflib_mdiff(fromlines, tolines) ==
    line_pair_iterator(line_iterator(ndiff(fromlines, tolines), 0, 0, 0),
                       <<>>, <<>>)

\* Hunk.mdiff
mdiff(h) == difflib_mdiff(get_old_text(h), get_new_text(h))

(***************************************************************************)
(* Colors and string helpers.                                              *)
(***************************************************************************)
COLORS ==
    [reset        |-> <<ESC, "[", "0", "m">>,
     underline    |-> <<ESC, "[", "4", "m">>,
     reverse      |-> <<ESC, "[", "7", "m">>,
     red          |-> <<ESC, "[", "3", "1", "m">>,
     green        |-> <<ESC, "[", "3", "2", "m">>,
     yellow       |-> <<ESC, "[", "3", "3", "m">>,
     blue         |-> <<ESC, "[", "3", "4", "m">>,
     magenta      |-> <<ESC, "[", "3", "5", "m">>,
     cyan         |-> <<ESC, "[", "3", "6", "m">>,
     lightred     |-> <<ESC, "[", "1", ";", "3", "1", "m">>,
     lightgreen   |-> <<ESC, "[", "1", ";", "3", "2", "m">>,
     lightyellow  |-> <<ESC, "[", "1", ";", "3", "3", "m">>,
     lightblue    |-> <<ESC, "[", "1", ";", "3", "4", "m">>,
     lightmagenta |-> <<ESC, "[", "1", ";", "3", "5", "m">>,
     lightcyan    |-> <<ESC, "[", "1", ";", "3", "6", "m">>]

\* COLORS.get(color, '')
ansi_code(color) == IF color \in DOMAIN COLORS THEN COLORS[color] ELSE <<>>

\* colorize(text, start_color, end_color='reset')
colorize(text, start_color) == ansi_code(start_color) \o text \o ansi_code("reset")

\* str.lstrip(chars)
lstrip(str, chars) ==
    IF \A p \in 1..Len(str) : str[p] \in chars THEN <<>>
    ELSE SubSeq(str,
                CHOOSE p \in 1..Len(str) :
                    /\ str[p] \notin chars
                    /\ \A q \in 1..(p - 1) : str[q] \in chars,
                Len(str))

\* str.rstrip(chars)
rstrip(str, chars) ==
    IF \A p \in 1..Len(str) : str[p] \in chars THEN <<>>
    ELSE SubSeq(str, 1,
                CHOOSE p \in 1..Len(str) :
                    /\ str[p] \notin chars
                    /\ \A q \in (p + 1)..Len(str) : str[q] \in chars)

\* str.strip(chars)
strip(str, chars) == rstrip(lstrip(str, chars), chars)

\* str[p - 1:].startswith(old)
MatchAt(str, old, p) ==
    /\ p + Len(old) - 1 <= Len(str)
    /\ SubSeq(str, p, p + Len(old) - 1) = old

\* str.replace(old, new), for an `old` no two occurrences of which overlap
\* (one character, or '\0' and a marker): each position of str gives `new`
\* where an occurrence starts, nothing inside one, its character elsewhere
replace(str, old, new) ==
    Concat([p \in 1..Len(str) |->
              IF MatchAt(str, old, p) THEN new
              ELSE IF \E q \in Max(1, p - Len(old) + 1)..(p - 1) :
                          MatchAt(str, old, q)
                   THEN <<>>
                   ELSE <<str[p]>>])

Digits == {"0", "1", "2", "3", "4", "5", "6", "7", "8", "9"}

\* the length of the match of \x1b\[(1;)?\d{1,2}m at position s of str, 0 if
\* there is none
AnsiMatchLen(str, s) ==
    LET at(p) == IF p <= Len(str) THEN str[p] ELSE ""
        \* \d{1,2}m from position p
        tail(p) == IF at(p) \in Digits /\ at(p + 1) \in Digits /\ at(p + 2) = "m"
                   THEN 3
                   ELSE IF at(p) \in Digits /\ at(p + 1) = "m" THEN 2
                   ELSE 0
    IN  IF at(s) = ESC /\ at(s + 1) = "["
        THEN IF at(s + 2) = "1" /\ at(s + 3) = ";" /\ tail(s + 4) > 0
             THEN 4 + tail(s + 4)
             ELSE IF tail(s + 2) > 0 THEN 2 + tail(s + 2)
             ELSE 0
        ELSE 0

\* the longest match of the pattern
MaxAnsiLen == 7

\* re.sub(r'\x1b\[(1;)?\d{1,2}m', '', markup): a match begins with the only
\* \x1b it holds, so no two matches overlap and every match is replaced
StripAnsi(str) ==
    Concat([p \in 1..Len(str) |->
              IF \E q \in Max(1, p - MaxAnsiLen + 1)..p :
                     q + AnsiMatchLen(str, q) > p
              THEN <<>>
              ELSE <<str[p]>>])

(***************************************************************************)
(* Diff: the renderers.                                                    *)
(***************************************************************************)
markup_header(line) == colorize(line, "cyan")

markup_old_path(line) == colorize(line, "yellow")

markup_new_path(line) == colorize(line, "yellow")

markup_hunk_header(line) == colorize(line, "lightblue")

markup_common(line) == colorize(line, "reset")

markup_old(line) == colorize(line, "lightred")

markup_new(line) == colorize(line, "lightgreen")

\* _markup_mix ending a span with a bare reset, the base color not restored
markup_mix_bare_reset(line, base_color) ==
    LET del_code == ansi_code("reverse") \o ansi_code(base_color)
        add_code == ansi_code("reverse") \o ansi_code(base_color)
        chg_code == ansi_code("underline") \o ansi_code(base_color)
        rst_code == ansi_code("reset")
        l1 == replace(line, <<NUL, "-">>, del_code)
        l2 == replace(l1, <<NUL, "+">>, add_code)
        l3 == replace(l2, <<NUL, "^">>, chg_code)
        l4 == replace(l3, <<SOH>>, rst_code)
    IN  colorize(l4, base_color)

\* Diff._markup_mix
markup_mix(line, base_color) ==
    LET del_code == ansi_code("reverse") \o ansi_code(base_color)
        add_code == ansi_code("reverse") \o ansi_code(base_color)
        chg_code == ansi_code("underline") \o ansi_code(base_color)
        rst_code == ansi_code("reset") \o ansi_code(base_color)
        l1 == replace(line, <<NUL, "-">>, del_code)
        l2 == replace(l1, <<NUL, "+">>, add_code)
        l3 == replace(l2, <<NUL, "^">>, chg_code)
        l4 == replace(l3, <<SOH>>, rst_code)
    IN  colorize(l4, base_color)

markup_old_mix(line) == markup_mix(line, "red")

markup_new_mix(line) == markup_mix(line, "green")

\* Diff.markup_traditional: the lines yielded for one row of hunk.mdiff()
traditional_row(r) ==
    LET old == r.from
        new == r.to
    IN  IF r.flag
        THEN IF old[1] = 0
             THEN <<markup_new(strip(new[2], {NUL, SOH}))>>
             ELSE IF new[1] = 0
             THEN <<markup_old(strip(old[2], {NUL, SOH}))>>
             ELSE <<markup_old(<<"-">>) \o markup_old_mix(old[2]),
                    markup_new(<<"+">>) \o markup_new_mix(new[2])>>
        ELSE <<markup_common(<<" ">> \o old[2])>>

RECURSIVE MapRows(_, _)
\* the lines yielded for a list of rows by row renderer f
MapRows(f(_), rows) ==
    IF rows = <<>> THEN <<>> ELSE f(Head(rows)) \o MapRows(f, Tail(rows))

\* Diff.markup_traditional: one hunk
traditional_hunk(h) ==
    <<markup_hunk_header(h.hunk_header)>> \o MapRows(traditional_row, mdiff(h))

\* the role-colored headers and paths both renderers start with
preamble(d) ==
    [i \in 1..Len(d.headers) |-> markup_header(d.headers[i])]
    \o <<markup_old_path(d.old_path), markup_new_path(d.new_path)>>

\* Diff.markup_traditional
markup_traditional(d) ==
    preamble(d)
    \o Concat([i \in 1..Len(d.hunks) |-> traditional_hunk(d.hunks[i])])

\* markup_side_by_side._normalize
normalize(line) == replace(replace(line, <<TAB>>, Repeat(" ", 8)), <<NL>>, <<>>)

\* markup_side_by_side._fit_width
fit_width(markup, width) ==
    LET line == StripAnsi(markup)
    IN  IF Len(line) < width
        THEN markup \o Repeat(" ", width - Len(line))
        ELSE markup

\* width = 80: the column width markup_side_by_side uses
SideBySideWidth == 80

\* line_fmt % (left, right)
line_fmt(left, right) ==
    left \o <<" ">> \o colorize(<<"|">>, "lightyellow") \o <<" ">> \o right
    \o <<NL>>

\* Diff.markup_side_by_side: `left` as it is yielded for one row of
\* hunk.mdiff()
left_column(r, width) ==
    IF r.flag
    THEN IF r.from[1] = 0
         THEN Repeat(" ", width)
         ELSE IF r.to[1] = 0
         THEN fit_width(markup_old(rstrip(lstrip(normalize(r.from[2]),
                                                 {NUL, "-"}), {SOH})), width)
         ELSE fit_width(markup_old_mix(normalize(r.from[2])), width)
    ELSE fit_width(markup_common(normalize(r.from[2])), width)

\* Diff.markup_side_by_side: `right` as it is yielded for one row
right_column(r, width) ==
    IF r.flag
    THEN IF r.from[1] = 0
         THEN fit_width(markup_new(rstrip(lstrip(normalize(r.to[2]),
                                                 {NUL, "+"}), {SOH})), width)
         ELSE IF r.to[1] = 0
         THEN <<>>
         ELSE fit_width(markup_new_mix(normalize(r.to[2])), width)
    ELSE fit_width(markup_common(normalize(r.to[2])), width)

\* Diff.markup_side_by_side: the line yielded for one row
side_by_side_row(r, width) ==
    <<line_fmt(left_column(r, width), right_column(r, width))>>

RECURSIVE SideRows(_, _)
\* the lines yielded for a list of rows
SideRows(rows, width) ==
    IF rows = <<>> THEN <<>>
    ELSE side_by_side_row(Head(rows), width) \o SideRows(Tail(rows), width)

\* Diff.markup_side_by_side: one hunk; width = 80 overwrites the argument
side_by_side_hunk(h, show_number, width) ==
    <<markup_hunk_header(h.hunk_header)>> \o SideRows(mdiff(h), SideBySideWidth)

\* Diff.markup_side_by_side
markup_side_by_side(d, show_number, width) ==
    preamble(d)
    \o Concat([i \in 1..Len(d.hunks) |->
                  side_by_side_hunk(d.hunks[i], show_number, width)])

(***************************************************************************)
(* The inputs.                                                             *)
(***************************************************************************)
\* the number of leading lines DiffParser.__init__ looks at
ScanLimit == 10

LHeader  == <<"I", "\n">>
LOldPath == <<"-", "-", "-", " ", "a", "\n">>
LNewPath == <<"+", "+", "+", " ", "b", "\n">>
LHunkHdr == <<"@", "@", " ", "-", "1", "\n">>
LHunkHdr2 == <<"@", "@", " ", "-", "2", "\n">>
LOld     == <<"-", "x", "\n">>
LNew     == <<"+", "y", "\n">>
LCommon  == <<" ", "z", "\n">>
LEof     == <<"\\", "\n">>
LUnknown == <<"@", "\n">>

LineShapes == {LHeader, LOldPath, LNewPath, LHunkHdr, LOld, LNew, LCommon,
               LEof, LUnknown}

RECURSIVE SeqsUpTo(_, _)
\* every sequence over S of length at most n
SeqsUpTo(S, n) ==
    IF n = 0 THEN {<<>>}
    ELSE LET shorter == SeqsUpTo(S, n - 1)
         IN  shorter \cup {Append(s, x) : s \in {t \in shorter : Len(t) = n - 1}, x \in S}

FreeInputs == SeqsUpTo(LineShapes, MaxLen)

\* n header lines
PadHeaders(n) == [p \in 1..n |-> LHeader]

\* what the free lines follow: nothing, an open hunk, a hunk under another
\* hunk header, a complete Diff with a header, a complete Diff and the open
\* hunk of a second one, and header lines up to the end of the window
\* DiffParser.__init__ looks at
Preambles ==
    {<<>>,
     <<LOldPath, LNewPath, LHunkHdr>>,
     <<LOldPath, LNewPath, LHunkHdr2, LNew>>,
     <<LHeader, LOldPath, LNewPath, LHunkHdr, LCommon>>,
     <<LOldPath, LNewPath, LHunkHdr, LOld, LOldPath, LNewPath, LHunkHdr>>,
     PadHeaders(ScanLimit - 2),
     PadHeaders(ScanLimit - 1),
     PadHeaders(ScanLimit)}

\* a removed line one character wider than a column of the side-by-side view
LLong == <<"-">> \o Repeat("q", SideBySideWidth + 1) \o <<NL>>

\* body lines: similar and dissimilar pairs, content that begins with a
\* marker character or a tab, and the wide line
BodyShapes ==
    {LOld, LNew, LCommon,
     <<"-", "a", "b", "c", "d", "\n">>, <<"+", "a", "b", "x", "d", "\n">>,
     <<"-", "f", "o", "o", "\n">>, <<"+", "f", "o", "o", "b", "a", "r", "\n">>,
     <<"-", "-", "q", "\n">>, <<"+", "\t", "q", "\n">>,
     LLong}

PatchInputs ==
    {<<LOldPath, LNewPath, LHunkHdr>> \o body :
        body \in SeqsUpTo(BodyShapes, MaxBody)}

Inputs == {pre \o free : pre \in Preambles, free \in FreeInputs} \cup PatchInputs

(***************************************************************************)
(* DiffParser                                                              *)
(***************************************************************************)
\* DiffParser.__init__ looking at the whole stream: for line in stream
LooksLikeUdiffAnywhere(s) ==
    \E i \in 1..Len(s) : is_new_path(s[i])

\* DiffParser.__init__: for line in stream[:10]: if line.startswith('+++ ')
LooksLikeUdiff(s) ==
    \E i \in 1..Min(ScanLimit, Len(s)) : is_new_path(s[i])

(***************************************************************************)
(* Python's lists and Hunks are objects, and a Diff keeps the lists it is  *)
(* given, not copies.  `refs` names the object each of them is: the list   *)
(* bound to `headers`, the list bound to `hunks`, the Hunk bound to `hunk` *)
(* (NoObject for None), the Hunks that are in the list `hunks`, and the    *)
(* same for the lists of every emitted Diff.  A change of an object shows  *)
(* through every name that refers to it.                                   *)
(***************************************************************************)
NoObject == 0

\* headers = [], hunks = [], hunk = None at the head of _parse_udiff
NewRefs ==
    [headers |-> 1, hunks |-> 2, hunk |-> NoObject, in_hunks |-> <<>>,
     fresh |-> 3, emitted |-> <<>>]

\* the objects that Diff(headers, old_path, new_path, hunks) keeps, the list
\* `hunks` holding the Hunks in_hunks
DiffRefs(in_hunks) ==
    [headers |-> refs.headers, hunks |-> refs.hunks, in_hunks |-> in_hunks]

\* the emitted Diffs, seen after the list object obj got the value `value`
\* by headers.append
HeadersWritten(obj, value) ==
    [k \in 1..Len(out_diffs) |->
        IF refs.emitted[k].headers = obj
        THEN [out_diffs[k] EXCEPT !.headers = value]
        ELSE out_diffs[k]]

\* the emitted Diffs, seen after the list object obj got the value `value`
\* by hunks.append
HunksWritten(obj, value) ==
    [k \in 1..Len(out_diffs) |->
        IF refs.emitted[k].hunks = obj
        THEN [out_diffs[k] EXCEPT !.hunks = value]
        ELSE out_diffs[k]]

\* the objects of the emitted Diffs after hunks.append(hunk) on the list obj
HunksWrittenRefs(obj, in_hunks) ==
    [k \in 1..Len(refs.emitted) |->
        IF refs.emitted[k].hunks = obj
        THEN [refs.emitted[k] EXCEPT !.in_hunks = in_hunks]
        ELSE refs.emitted[k]]

\* a list of Hunks that are the objects in_hunks, seen after the Hunk
\* object obj got the value `value` by Hunk.append
HunkWrittenIn(list, in_hunks, obj, value) ==
    [j \in 1..Len(list) |-> IF in_hunks[j] = obj THEN value ELSE list[j]]

\* the emitted Diffs, seen after the Hunk object obj got the value `value`
HunkWritten(obj, value) ==
    [k \in 1..Len(out_diffs) |->
        [out_diffs[k] EXCEPT
            !.hunks = HunkWrittenIn(@, refs.emitted[k].in_hunks, obj, value)]]

Init ==
    /\ input \in Inputs
    /\ stream = input
    /\ pc = "construct"
    /\ error = "none"
    /\ out_diffs = <<>>
    /\ headers = <<>>
    /\ old_path = None
    /\ new_path = None
    /\ hunks = <<>>
    /\ hunk = NoHunk
    /\ self_diffs = <<>>
    /\ mode = "none"
    /\ width_arg = 0
    /\ output = <<>>
    /\ refs = NewRefs

\* a failure that hands over the Diffs collected so far
RaiseWithDiffs(msg) ==
    /\ pc' = "failed"
    /\ error' = msg
    /\ self_diffs' = out_diffs
    /\ UNCHANGED <<input, stream, parser_locals, mode, width_arg, output>>

\* raise RuntimeError(msg): the parser's locals are left as they were
Raise(msg) ==
    /\ pc' = "failed"
    /\ error' = msg
    /\ UNCHANGED <<input, stream, parser_locals, self_diffs, mode, width_arg, output>>

\* DiffParser.__init__, up to the call of _parse
Construct ==
    /\ pc = "construct"
    /\ IF LooksLikeUdiff(stream)
       THEN /\ pc' = "parse"
            /\ UNCHANGED <<input, stream, error, parser_locals, self_diffs,
                           mode, width_arg, output>>
       ELSE Raise("unknown diff type")

\* the emission without `hunks = []`: the hunk list is carried over
EmitKeepingHunks ==
    /\ out_diffs' = Append(HunksWritten(refs.hunks, Append(hunks, hunk)),
                           Diff(headers, old_path, new_path, Append(hunks, hunk)))
    /\ headers' = <<>>
    /\ old_path' = None
    /\ new_path' = None
    /\ hunks' = Append(hunks, hunk)
    /\ hunk' = NoHunk
    /\ refs' = [headers |-> refs.fresh, hunks |-> refs.hunks, hunk |-> NoObject,
                 in_hunks |-> Append(refs.in_hunks, refs.hunk), fresh |-> refs.fresh + 2,
                 emitted |->
                     Append(HunksWrittenRefs(refs.hunks,
                                             Append(refs.in_hunks, refs.hunk)),
                            DiffRefs(Append(refs.in_hunks, refs.hunk)))]
    /\ UNCHANGED <<input, stream, pc, error, self_diffs, mode, width_arg, output>>

\* the emission without `headers = []`: the header list is carried over
EmitKeepingHeaders ==
    /\ out_diffs' = Append(HunksWritten(refs.hunks, Append(hunks, hunk)),
                           Diff(headers, old_path, new_path, Append(hunks, hunk)))
    /\ headers' = headers
    /\ old_path' = None
    /\ new_path' = None
    /\ hunks' = <<>>
    /\ hunk' = NoHunk
    /\ refs' = [headers |-> refs.headers, hunks |-> refs.fresh + 1, hunk |-> NoObject,
                 in_hunks |-> <<>>, fresh |-> refs.fresh + 2,
                 emitted |->
                     Append(HunksWrittenRefs(refs.hunks,
                                             Append(refs.in_hunks, refs.hunk)),
                            DiffRefs(Append(refs.in_hunks, refs.hunk)))]
    /\ UNCHANGED <<input, stream, pc, error, self_diffs, mode, width_arg, output>>

\* the in-progress Diff is appended to out_diffs and the locals are reset:
\* headers = [] and hunks = [] are new lists
EmitAndReset ==
    /\ out_diffs' = Append(HunksWritten(refs.hunks, Append(hunks, hunk)),
                           Diff(headers, old_path, new_path, Append(hunks, hunk)))
    /\ headers' = <<>>
    /\ old_path' = None
    /\ new_path' = None
    /\ hunks' = <<>>
    /\ hunk' = NoHunk
    /\ refs' = [headers |-> refs.fresh, hunks |-> refs.fresh + 1, hunk |-> NoObject,
                 in_hunks |-> <<>>, fresh |-> refs.fresh + 2,
                 emitted |->
                     Append(HunksWrittenRefs(refs.hunks,
                                             Append(refs.in_hunks, refs.hunk)),
                            DiffRefs(Append(refs.in_hunks, refs.hunk)))]
    /\ UNCHANGED <<input, stream, pc, error, self_diffs, mode, width_arg, output>>

\* one iteration of the loop, Udiff.is_header(stream[0])
HeaderLine ==
    /\ pc = "parse" /\ stream # <<>>
    /\ is_header(Head(stream))
    /\ IF headers # <<>> /\ old_path # None
       THEN IF new_path = None \/ hunk = NoHunk
            THEN Raise("invalid patch format")
            ELSE EmitAndReset
       ELSE /\ headers' = Append(headers, Head(stream))
            /\ out_diffs' = HeadersWritten(refs.headers,
                                           Append(headers, Head(stream)))
            /\ stream' = Tail(stream)
            /\ UNCHANGED <<input, pc, error, old_path, new_path, hunks, hunk,
                           self_diffs, mode, width_arg, output, refs>>

\* one iteration of the loop, Udiff.is_old_path(stream[0])
OldPathLine ==
    /\ pc = "parse" /\ stream # <<>>
    /\ ~is_header(Head(stream))
    /\ is_old_path(Head(stream))
    /\ IF old_path # None
       THEN IF new_path = None \/ hunk = NoHunk
            THEN Raise("invalid patch format")
            ELSE EmitAndReset
       ELSE /\ old_path' = Head(stream)
            /\ stream' = Tail(stream)
            /\ UNCHANGED <<input, pc, error, out_diffs, headers, new_path,
                           hunks, hunk, self_diffs, mode, width_arg, output,
                           refs>>

\* the new-path branch without `assert old_path is not None`
NewPathLineUnguarded ==
    /\ pc = "parse" /\ stream # <<>>
    /\ ~is_header(Head(stream)) /\ ~is_old_path(Head(stream))
    /\ is_new_path(Head(stream))
    /\ IF new_path # None
       THEN Raise("invalid patch format")
       ELSE /\ new_path' = Head(stream)
            /\ stream' = Tail(stream)
            /\ UNCHANGED <<input, pc, error, out_diffs, headers, old_path,
                           hunks, hunk, self_diffs, mode, width_arg, output,
                           refs>>

\* one iteration of the loop, Udiff.is_new_path(stream[0])
NewPathLine ==
    /\ pc = "parse" /\ stream # <<>>
    /\ ~is_header(Head(stream)) /\ ~is_old_path(Head(stream))
    /\ is_new_path(Head(stream))
    /\ IF old_path = None \/ new_path # None
       THEN Raise("invalid patch format")
       ELSE /\ new_path' = Head(stream)
            /\ stream' = Tail(stream)
            /\ UNCHANGED <<input, pc, error, out_diffs, headers, old_path,
                           hunks, hunk, self_diffs, mode, width_arg, output,
                           refs>>

\* the hunk-header branch without its two asserts
HunkHeaderLineUnguarded ==
    /\ pc = "parse" /\ stream # <<>>
    /\ ~is_header(Head(stream)) /\ ~is_old_path(Head(stream))
    /\ ~is_new_path(Head(stream))
    /\ is_hunk_header(Head(stream))
    /\ IF hunk # NoHunk
       THEN /\ hunks' = Append(hunks, hunk)
            /\ hunk' = NoHunk
            /\ out_diffs' = HunksWritten(refs.hunks, Append(hunks, hunk))
            /\ refs' = [refs EXCEPT
                          !.in_hunks = Append(@, refs.hunk),
                          !.hunk = NoObject,
                          !.emitted =
                              HunksWrittenRefs(refs.hunks,
                                               Append(refs.in_hunks, refs.hunk))]
            /\ UNCHANGED <<input, stream, pc, error, headers, old_path,
                           new_path, self_diffs, mode, width_arg, output>>
       ELSE /\ hunk' = Hunk(Head(stream))
            /\ refs' = [refs EXCEPT !.hunk = refs.fresh, !.fresh = @ + 1]
            /\ stream' = Tail(stream)
            /\ UNCHANGED <<input, pc, error, out_diffs, headers, old_path,
                           new_path, hunks, self_diffs, mode, width_arg,
                           output>>

\* the hunk-header branch closing the open hunk without `hunk = None`
HunkHeaderLineStalling ==
    /\ pc = "parse" /\ stream # <<>>
    /\ ~is_header(Head(stream)) /\ ~is_old_path(Head(stream))
    /\ ~is_new_path(Head(stream))
    /\ is_hunk_header(Head(stream))
    /\ IF old_path = None \/ new_path = None
       THEN Raise("invalid patch format")
       ELSE IF hunk # NoHunk
            THEN /\ hunks' = Append(hunks, hunk)
                 /\ out_diffs' = HunksWritten(refs.hunks, Append(hunks, hunk))
                 /\ refs' = [refs EXCEPT
                               !.in_hunks = Append(@, refs.hunk),
                               !.emitted =
                                   HunksWrittenRefs(refs.hunks,
                                                    Append(refs.in_hunks, refs.hunk))]
                 /\ UNCHANGED <<input, stream, pc, error, headers, old_path,
                                new_path, hunk, self_diffs, mode, width_arg, output>>
            ELSE /\ hunk' = Hunk(Head(stream))
                 /\ refs' = [refs EXCEPT !.hunk = refs.fresh, !.fresh = @ + 1]
                 /\ stream' = Tail(stream)
                 /\ UNCHANGED <<input, pc, error, out_diffs, headers, old_path,
                                new_path, hunks, self_diffs, mode, width_arg,
                                output>>

\* one iteration of the loop, Udiff.is_hunk_header(stream[0])
HunkHeaderLine ==
    /\ pc = "parse" /\ stream # <<>>
    /\ ~is_header(Head(stream)) /\ ~is_old_path(Head(stream))
    /\ ~is_new_path(Head(stream))
    /\ is_hunk_header(Head(stream))
    /\ IF old_path = None \/ new_path = None
       THEN Raise("invalid patch format")
       ELSE IF hunk # NoHunk
            THEN /\ hunks' = Append(hunks, hunk)
                 /\ hunk' = NoHunk
                 /\ out_diffs' = HunksWritten(refs.hunks, Append(hunks, hunk))
                 /\ refs' = [refs EXCEPT
                               !.in_hunks = Append(@, refs.hunk),
                               !.hunk = NoObject,
                               !.emitted =
                                   HunksWrittenRefs(refs.hunks,
                                                    Append(refs.in_hunks, refs.hunk))]
                 /\ UNCHANGED <<input, stream, pc, error, headers, old_path,
                                new_path, self_diffs, mode, width_arg, output>>
            ELSE /\ hunk' = Hunk(Head(stream))
                 /\ refs' = [refs EXCEPT !.hunk = refs.fresh, !.fresh = @ + 1]
                 /\ stream' = Tail(stream)
                 /\ UNCHANGED <<input, pc, error, out_diffs, headers, old_path,
                                new_path, hunks, self_diffs, mode, width_arg,
                                output>>

\* the content branch dropping a line that no hunk is open for
ContentLineSkipping ==
    /\ pc = "parse" /\ stream # <<>>
    /\ ~is_header(Head(stream)) /\ ~is_old_path(Head(stream))
    /\ ~is_new_path(Head(stream)) /\ ~is_hunk_header(Head(stream))
    /\ is_old(Head(stream)) \/ is_new(Head(stream)) \/ is_common(Head(stream))
    /\ IF hunk = NoHunk
       THEN UNCHANGED <<out_diffs, hunks, hunk>>
       ELSE /\ hunk' = HunkAppend(hunk, Head(stream)[1], Tail(Head(stream)))
            /\ hunks' = HunkWrittenIn(hunks, refs.in_hunks, refs.hunk,
                           HunkAppend(hunk, Head(stream)[1], Tail(Head(stream))))
            /\ out_diffs' = HunkWritten(refs.hunk,
                           HunkAppend(hunk, Head(stream)[1], Tail(Head(stream))))
    /\ stream' = Tail(stream)
    /\ UNCHANGED <<input, pc, error, headers, old_path, new_path, self_diffs,
                   mode, width_arg, output, refs>>

\* one iteration of the loop, is_old / is_new / is_common
ContentLine ==
    /\ pc = "parse" /\ stream # <<>>
    /\ ~is_header(Head(stream)) /\ ~is_old_path(Head(stream))
    /\ ~is_new_path(Head(stream)) /\ ~is_hunk_header(Head(stream))
    /\ is_old(Head(stream)) \/ is_new(Head(stream)) \/ is_common(Head(stream))
    /\ IF old_path = None \/ new_path = None \/ hunk = NoHunk
       THEN Raise("invalid patch format")
       ELSE LET hunk_line == Head(stream)
            IN  /\ hunk' = HunkAppend(hunk, hunk_line[1], Tail(hunk_line))
                /\ hunks' = HunkWrittenIn(hunks, refs.in_hunks, refs.hunk,
                               HunkAppend(hunk, hunk_line[1], Tail(hunk_line)))
                /\ out_diffs' = HunkWritten(refs.hunk,
                               HunkAppend(hunk, hunk_line[1], Tail(hunk_line)))
                /\ stream' = Tail(stream)
                /\ UNCHANGED <<input, pc, error, headers, old_path, new_path,
                               self_diffs, mode, width_arg, output, refs>>

\* one iteration of the loop, Udiff.is_eof(stream[0]): the line is ignored
EofLine ==
    /\ pc = "parse" /\ stream # <<>>
    /\ ~is_header(Head(stream)) /\ ~is_old_path(Head(stream))
    /\ ~is_new_path(Head(stream)) /\ ~is_hunk_header(Head(stream))
    /\ ~(is_old(Head(stream)) \/ is_new(Head(stream)) \/ is_common(Head(stream)))
    /\ is_eof(Head(stream))
    /\ stream' = Tail(stream)
    /\ UNCHANGED <<input, pc, error, parser_locals, self_diffs, mode,
                   width_arg, output>>

\* one iteration of the loop, the final else
UnknownLine ==
    /\ pc = "parse" /\ stream # <<>>
    /\ ~is_header(Head(stream)) /\ ~is_old_path(Head(stream))
    /\ ~is_new_path(Head(stream)) /\ ~is_hunk_header(Head(stream))
    /\ ~(is_old(Head(stream)) \/ is_new(Head(stream)) \/ is_common(Head(stream)))
    /\ ~is_eof(Head(stream))
    /\ Raise("unknown patch format")

\* the end of input returning the collected Diffs without "The last patch"
EndOfInputDropping ==
    /\ pc = "parse" /\ stream = <<>>
    /\ self_diffs' = out_diffs
    /\ pc' = "done"
    /\ UNCHANGED <<input, stream, error, parser_locals, mode, width_arg, output>>

\* after the loop: "The last patch", and the return into DiffParser.__init__
EndOfInput ==
    /\ pc = "parse" /\ stream = <<>>
    /\ hunks' = IF hunk # NoHunk THEN Append(hunks, hunk) ELSE hunks
    /\ LET hunks1 == IF hunk # NoHunk THEN Append(hunks, hunk) ELSE hunks
           in_hunks1 == IF hunk # NoHunk THEN Append(refs.in_hunks, refs.hunk)
                        ELSE refs.in_hunks
           out_diffs1 == IF hunk # NoHunk THEN HunksWritten(refs.hunks, hunks1)
                         ELSE out_diffs
           emitted1 == IF hunk # NoHunk
                       THEN HunksWrittenRefs(refs.hunks, in_hunks1)
                       ELSE refs.emitted
       IN  IF old_path # None
           THEN IF new_path # None
                THEN /\ out_diffs' = Append(out_diffs1,
                                        Diff(headers, old_path, new_path, hunks1))
                     /\ refs' = [refs EXCEPT
                                   !.in_hunks = in_hunks1,
                                   !.emitted = Append(emitted1,
                                                      DiffRefs(in_hunks1))]
                     /\ self_diffs' = out_diffs'
                     /\ pc' = "done"
                     /\ UNCHANGED <<input, stream, error, headers, old_path,
                                    new_path, hunk, mode, width_arg, output>>
                ELSE /\ out_diffs' = out_diffs1
                     /\ refs' = [refs EXCEPT !.in_hunks = in_hunks1,
                                             !.emitted = emitted1]
                     /\ pc' = "failed"
                     /\ error' = "unknown patch format"
                     /\ UNCHANGED <<input, stream, headers, old_path,
                                    new_path, hunk, self_diffs, mode, width_arg,
                                    output>>
           ELSE IF headers # <<>>
                THEN /\ out_diffs' = out_diffs1
                     /\ refs' = [refs EXCEPT !.in_hunks = in_hunks1,
                                             !.emitted = emitted1]
                     /\ pc' = "failed"
                     /\ error' = "unknown patch format"
                     /\ UNCHANGED <<input, stream, headers, old_path,
                                    new_path, hunk, self_diffs, mode, width_arg,
                                    output>>
                ELSE /\ out_diffs' = out_diffs1
                     /\ refs' = [refs EXCEPT !.in_hunks = in_hunks1,
                                             !.emitted = emitted1]
                     /\ self_diffs' = out_diffs'
                     /\ pc' = "done"
                     /\ UNCHANGED <<input, stream, error, headers,
                                    old_path, new_path, hunk, mode, width_arg,
                                    output>>

\* markup(width=None) is the CLI's default; WidthNone stands for None
WidthNone == -1

\* the widths the CLI passes: None, 0 (also any negative override) and a
\* positive override
Widths == {WidthNone, 0, 4}

\* DiffMarkup.markup(side_by_side=False), the generator consumed to its end
MarkupTraditional ==
    /\ pc = "done"
    /\ pc' = "rendered"
    /\ mode' = "traditional"
    /\ output' = Concat([i \in 1..Len(self_diffs) |->
                            markup_traditional(self_diffs[i])])
    /\ UNCHANGED <<input, stream, error, parser_locals, self_diffs, width_arg>>

\* DiffMarkup.markup(side_by_side=True, show_number, width), consumed to its end
MarkupSideBySide ==
    /\ pc = "done"
    /\ \E show_number \in BOOLEAN, width \in Widths :
         /\ width_arg' = width
         /\ output' = Concat([i \in 1..Len(self_diffs) |->
                                 markup_side_by_side(self_diffs[i], show_number,
                                                     width)])
    /\ pc' = "rendered"
    /\ mode' = "side_by_side"
    /\ UNCHANGED <<input, stream, error, parser_locals, self_diffs>>

Next ==
    \/ Construct
    \/ HeaderLine
    \/ OldPathLine
    \/ NewPathLine
    \/ HunkHeaderLine
    \/ ContentLine
    \/ EofLine
    \/ UnknownLine
    \/ EndOfInput
    \/ MarkupTraditional
    \/ MarkupSideBySide

Spec == Init /\ [][Next]_vars

\* the constructor and the parser's loop, without the rendering that the
\* caller may or may not ask for afterwards
ParserStep ==
    Construct \/ HeaderLine \/ OldPathLine \/ NewPathLine \/ HunkHeaderLine
        \/ ContentLine \/ EofLine \/ UnknownLine \/ EndOfInput

\* the program running: a parser step that can be taken is taken
FairSpec == Spec /\ WF_vars(ParserStep)

(***************************************************************************)
(* The properties.  What a property expects of the input is computed from  *)
(* `input` alone.                                                          *)
(***************************************************************************)
\* the number of lines the parser has consumed
Consumed == Len(input) - Len(stream)

OldPathPrefix == <<"-", "-", "-", " ">>

NewPathPrefix == <<"+", "+", "+", " ">>

HunkPrefix == <<"@", "@", " ", "-">>

StartsOldPath(l) == StartsWith(l, OldPathPrefix)

StartsNewPath(l) == StartsWith(l, NewPathPrefix)

StartsHunk(l) == StartsWith(l, HunkPrefix)

\* a ' ', '-' or '+' line that is no path line
BodyLine(l) ==
    /\ l[1] \in {" ", "-", "+"}
    /\ ~StartsOldPath(l) /\ ~StartsNewPath(l)

\* the positions of the lines of s that satisfy Test
Positions(s, Test(_)) == {p \in 1..Len(s) : Test(s[p])}

\* the k-th smallest member of S
Nth(S, k) == CHOOSE p \in S : Cardinality({q \in S : q <= p}) = k

\* the k-th segment of s, the segments beginning at the positions `starts`
Segment(s, starts, k) ==
    SubSeq(s, Nth(starts, k),
           IF k < Cardinality(starts) THEN Nth(starts, k + 1) - 1 ELSE Len(s))

\* the body lines of seg other than those of kind `skip`, marker removed
BodyText(seg, skip) ==
    LET body == SelectSeq(seg, LAMBDA l : BodyLine(l) /\ l[1] # skip)
    IN  [p \in 1..Len(body) |-> Tail(body[p])]

\* the old (skip = "+") or new (skip = "-") text of the hunks hs, concatenated
TextOf(hs, skip) ==
    Concat([j \in 1..Len(hs) |-> SelectAttr(hs[j].hunk_list, skip)])

\* C1: after a successful parse the k-th Diff is the k-th file of the input
\* (from its old-path line up to the next one) and its j-th hunk the j-th
\* hunk of that file: the hunk's old text and new text are the file's
\* removed+context and added+context lines between the j-th hunk header and
\* the next, marker removed, in input order, and so are the texts
\* concatenated across the Diff's hunks.
C1_TextsPreserved ==
    pc \in {"done", "rendered"} =>
        LET files == Positions(input, StartsOldPath)
        IN  /\ Len(self_diffs) = Cardinality(files)
            /\ \A k \in 1..Len(self_diffs) :
                 LET file == Segment(input, files, k)
                     hdrs == Positions(file, StartsHunk)
                     d == self_diffs[k]
                 IN  /\ Len(d.hunks) = Cardinality(hdrs)
                     /\ \A j \in 1..Len(d.hunks) :
                          /\ get_old_text(d.hunks[j])
                               = BodyText(Segment(file, hdrs, j), "+")
                          /\ get_new_text(d.hunks[j])
                               = BodyText(Segment(file, hdrs, j), "-")
                     /\ TextOf(d.hunks, "+") = BodyText(file, "+")
                     /\ TextOf(d.hunks, "-") = BodyText(file, "-")

\* C1 happens: two Diffs are returned, the second with two hunks that both
\* hold lines
C1_Witness ==
    /\ pc = "done"
    /\ Len(self_diffs) = 2
    /\ Len(self_diffs[2].hunks) = 2
    /\ self_diffs[1].hunks[1].hunk_list # <<>>
    /\ self_diffs[2].hunks[1].hunk_list # <<>>
    /\ self_diffs[2].hunks[2].hunk_list # <<>>

\* one of the first 10 lines of the input begins with "+++ "
NewPathInFirstTen ==
    \E p \in 1..Len(input) : p <= 10 /\ StartsNewPath(input[p])

\* C2: the construction fails with 'unknown diff type' exactly when none of
\* the first 10 input lines begins with "+++ ", and on that failure no line
\* has been consumed and no Diff exists.
C2_UnknownDiffType ==
    pc # "construct" =>
        /\ (error = "unknown diff type") <=> ~NewPathInFirstTen
        /\ error = "unknown diff type" =>
             /\ stream = input
             /\ out_diffs = <<>> /\ self_diffs = <<>> /\ output = <<>>

\* C2 happens: the input is refused although its 11th line begins with "+++ "
C2_Witness ==
    /\ pc = "failed"
    /\ error = "unknown diff type"
    /\ Len(input) > 10
    /\ StartsNewPath(input[11])

\* C3: a step of the parser at a new-path line, taken while no old-path is
\* held, fails with 'invalid patch format' and returns no Diff; and no Diff
\* ever collected or returned has its old_path unset.
C3_NewPathWithoutOldPath ==
    [][/\ (pc = "parse" /\ stream # <<>> /\ StartsNewPath(Head(stream))
             /\ old_path = None)
          => (pc' = "failed" /\ error' = "invalid patch format"
                /\ self_diffs' = <<>>)
       /\ \A k \in 1..Len(out_diffs') : out_diffs'[k].old_path # None
       /\ \A k \in 1..Len(self_diffs') : self_diffs'[k].old_path # None]_vars

\* C3 happens: the parse has failed at a new-path line with no old-path
\* held, after a complete Diff had been collected
C3_Witness ==
    /\ pc = "failed"
    /\ error = "invalid patch format"
    /\ stream # <<>> /\ StartsNewPath(Head(stream))
    /\ old_path = None
    /\ out_diffs # <<>>

\* C4: a step of the parser at a new-path line accepts the line if the line
\* consumed just before it is the old-path line the parser holds (and no
\* new-path is held); in every other position it fails with 'invalid patch
\* format'.
C4_NewPathOnlyAfterOldPath ==
    [][(pc = "parse" /\ stream # <<>> /\ StartsNewPath(Head(stream)))
         => IF /\ Consumed >= 1
               /\ StartsOldPath(input[Consumed])
               /\ old_path = input[Consumed]
               /\ new_path = None
            THEN pc' = "parse" /\ new_path' = Head(stream)
            ELSE pc' = "failed" /\ error' = "invalid patch format"]_vars

\* C5: a step of the parser at a header line, taken while it holds an
\* old-path, a new-path and an open hunk, emits the in-progress Diff with its
\* own headers and all its hunks and resets, whether or not that Diff has
\* headers; the header line is left for the next Diff.
C5_HeaderEmitsDiff ==
    [][(/\ pc = "parse" /\ stream # <<>>
        /\ Head(stream)[1] \notin {"+", "@", "\\", " ", "-"}
        /\ old_path # None /\ new_path # None /\ hunk # NoHunk)
         => /\ out_diffs' = Append(out_diffs,
                               [headers |-> headers, old_path |-> old_path,
                                new_path |-> new_path,
                                hunks |-> Append(hunks, hunk)])
            /\ headers' = <<>>
            /\ stream' = stream]_vars

\* C6: every Diff a successful parse returns has at least one hunk.
C6_EveryDiffHasHunk ==
    pc \in {"done", "rendered"} =>
        \A k \in 1..Len(self_diffs) : Len(self_diffs[k].hunks) >= 1

\* C7: once the parse has failed, no Diff is returned and no output line is
\* produced, whatever had been collected before the failure.
C7_AllOrNothing ==
    error # "none" =>
        /\ pc = "failed"
        /\ self_diffs = <<>>
        /\ output = <<>>
        /\ mode = "none"

\* C7 happens: the parse has failed with a complete Diff already collected
C7_Witness ==
    /\ pc = "failed"
    /\ error \in {"invalid patch format", "unknown patch format"}
    /\ Len(out_diffs) >= 1

\* C8: the lines of the traditional markup, escape sequences removed, are
\* the lines of the input in their order, the eof-markers left out.
C8_RoundTrip ==
    (pc = "rendered" /\ mode = "traditional") =>
        [p \in 1..Len(output) |-> StripAnsi(output[p])]
            = SelectSeq(input, LAMBDA l : l[1] # "\\")

\* the bar between the two columns of a side-by-side row
ColumnBar == <<" ">> \o colorize(<<"|">>, "lightyellow") \o <<" ">>

\* the output lines that are side-by-side rows
IsRow(line) == \E p \in 1..Len(line) : MatchAt(line, ColumnBar, p)

\* where the bar of a row begins
BarAt(line) ==
    CHOOSE p \in 1..Len(line) :
        /\ MatchAt(line, ColumnBar, p)
        /\ \A q \in 1..(p - 1) : ~MatchAt(line, ColumnBar, q)

\* the visible width of the left and of the right column of a row
LeftWidth(line) == Len(StripAnsi(SubSeq(line, 1, BarAt(line) - 1)))

RightWidth(line) ==
    Len(StripAnsi(SubSeq(line, BarAt(line) + Len(ColumnBar), Len(line) - 1)))

\* C9: in every row of the side-by-side markup the visible width of each
\* column is at most the column width (80, the width the renderer pads to);
\* a row carries nothing that could flag an overflow.
C9_ColumnsFit ==
    (pc = "rendered" /\ mode = "side_by_side") =>
        \A p \in 1..Len(output) :
            IsRow(output[p]) =>
                /\ LeftWidth(output[p]) <= 80
                /\ RightWidth(output[p]) <= 80

\* the side-by-side markup of d with columns padded to w
SideBySideAt(d, w) ==
    preamble(d)
    \o Concat([j \in 1..Len(d.hunks) |->
                  <<markup_hunk_header(d.hunks[j].hunk_header)>>
                  \o SideRows(mdiff(d.hunks[j]), w)])

\* C10: with a positive width w passed to the side-by-side markup, the
\* columns are padded to w.
C10_WidthHonoured ==
    (pc = "rendered" /\ mode = "side_by_side" /\ width_arg > 0) =>
        output = Concat([k \in 1..Len(self_diffs) |->
                            SideBySideAt(self_diffs[k], width_arg)])

\* the messages of a MalformedPatch failure
MalformedPatch == {"invalid patch format", "unknown patch format"}

\* C11: the step at the end of input appends an open hunk and emits the
\* in-progress Diff if it holds an old-path and a new-path; if an old-path is
\* held with no new-path, or headers with no old-path, it fails with
\* MalformedPatch and nothing is returned.
C11_EndOfInput ==
    [][(pc = "parse" /\ stream = <<>>)
         => IF old_path # None /\ new_path # None
            THEN /\ pc' = "done"
                 /\ self_diffs'
                      = Append(out_diffs,
                               [headers |-> headers, old_path |-> old_path,
                                new_path |-> new_path,
                                hunks |-> IF hunk # NoHunk
                                          THEN Append(hunks, hunk) ELSE hunks])
            ELSE (old_path # None \/ headers # <<>>)
                   => /\ pc' = "failed"
                      /\ error' \in MalformedPatch
                      /\ self_diffs' = <<>>]_vars

\* C11 happens: the input has ended with an old-path and no new-path held,
\* after a Diff had been collected, and the parse has failed
C11_Witness ==
    /\ pc = "failed"
    /\ stream = <<>>
    /\ old_path # None /\ new_path = None
    /\ out_diffs # <<>>

\* the left and the right column of a side-by-side row
LeftOf(line) == SubSeq(line, 1, BarAt(line) - 1)

RightOf(line) == SubSeq(line, BarAt(line) + Len(ColumnBar), Len(line) - 1)

\* the kinds of rows in the traditional markup: a pure insertion or deletion
\* is one light-colored line, a replacement a light-colored '-' and '+' each
\* followed by a line in the base color
TradInsertion(line) ==
    StartsWith(line, ansi_code("lightgreen")) /\ ~StartsWith(line, markup_new(<<"+">>))

TradDeletion(line) ==
    StartsWith(line, ansi_code("lightred")) /\ ~StartsWith(line, markup_old(<<"-">>))

TradReplacement(line) ==
    StartsWith(line, markup_old(<<"-">>)) \/ StartsWith(line, markup_new(<<"+">>))

\* the kinds of rows in the side-by-side markup
SideInsertion(line) ==
    IsRow(line) /\ StartsWith(RightOf(line), ansi_code("lightgreen"))

SideDeletion(line) ==
    IsRow(line) /\ StartsWith(LeftOf(line), ansi_code("lightred"))

SideReplacement(line) ==
    IsRow(line) /\ (\/ StartsWith(LeftOf(line), ansi_code("red"))
                    \/ StartsWith(RightOf(line), ansi_code("green")))

\* the number of output lines that satisfy Test
CountLines(Test(_)) == Cardinality({p \in 1..Len(output) : Test(output[p])})

\* the lines of all hunks of the returned Diffs, as <<attr, line>>
AllHunkLines ==
    Concat([k \in 1..Len(self_diffs) |->
              Concat([j \in 1..Len(self_diffs[k].hunks) |->
                        self_diffs[k].hunks[j].hunk_list])])

\* C12: when every hunk holds added lines only, the markup has no
\* pure-deletion row and no replacement row, and as many pure-insertion rows
\* as there are added lines, in traditional and in side-by-side mode.
C12_OnlyAdditions ==
    (pc = "rendered"
       /\ \A p \in 1..Len(AllHunkLines) : AllHunkLines[p][1] = "+")
      => IF mode = "traditional"
         THEN /\ CountLines(TradInsertion) = Len(AllHunkLines)
              /\ CountLines(TradDeletion) = 0
              /\ CountLines(TradReplacement) = 0
         ELSE /\ CountLines(SideInsertion) = Len(AllHunkLines)
              /\ CountLines(SideDeletion) = 0
              /\ CountLines(SideReplacement) = 0

\* C12 happens: a hunk of two different added lines is rendered side by side
C12_Witness ==
    /\ pc = "rendered" /\ mode = "side_by_side"
    /\ Len(AllHunkLines) = 2
    /\ AllHunkLines[1][1] = "+" /\ AllHunkLines[2][1] = "+"
    /\ AllHunkLines[1] # AllHunkLines[2]

\* the line holds the code of a change span: inverse video or underline
HasSpan(line) ==
    \E p \in 1..Len(line) :
        \/ MatchAt(line, ansi_code("reverse"), p)
        \/ MatchAt(line, ansi_code("underline"), p)

\* the hunk that replaces the line "foo" by the line "foobar"
FooPatch ==
    <<LOldPath, LNewPath, LHunkHdr,
      <<"-", "f", "o", "o", "\n">>,
      <<"+", "f", "o", "o", "b", "a", "r", "\n">>>>

\* C13: in the traditional markup of "-foo", "+foobar" the old line carries
\* no change span, and the new line shows "foo" in the plain base color and
\* marks the appended "bar".
C13_FooFoobar ==
    (pc = "rendered" /\ mode = "traditional" /\ input = FooPatch) =>
        /\ Len(output) = 5
        /\ StartsWith(output[4], markup_old(<<"-">>))
        /\ ~HasSpan(output[4])
        /\ StartsWith(output[5], markup_new(<<"+">>) \o ansi_code("green")
                                   \o <<"f", "o", "o">>)
        /\ HasSpan(output[5])

\* C14: in every state new_path is set only if old_path is, and a hunk is
\* open only if both paths are set; and a step at a hunk-header line, taken
\* while a path is missing, fails with MalformedPatch and creates no hunk.
C14_PathsBeforeHunk ==
    /\ [](/\ new_path # None => old_path # None
          /\ hunk # NoHunk => (old_path # None /\ new_path # None))
    /\ [][(/\ pc = "parse" /\ stream # <<>> /\ StartsHunk(Head(stream))
           /\ (old_path = None \/ new_path = None))
            => /\ pc' = "failed"
               /\ error' \in MalformedPatch
               /\ hunk' = NoHunk /\ hunks' = hunks
               /\ self_diffs' = <<>>]_vars

\* C14 happens: the parse has failed at a hunk-header line that follows an
\* old-path with no new-path
C14_Witness ==
    /\ pc = "failed"
    /\ stream # <<>> /\ StartsHunk(Head(stream))
    /\ old_path # None /\ new_path = None

\* the body lines of seg as a hunk keeps them: <<kind, text>>
HunkLines(seg) ==
    LET body == SelectSeq(seg, BodyLine)
    IN  [p \in 1..Len(body) |-> <<body[p][1], Tail(body[p])>>]

\* the number of hunks of all returned Diffs
AllHunks ==
    Len(Concat([k \in 1..Len(self_diffs) |-> self_diffs[k].hunks]))

\* C15: after a successful parse there are as many hunks as hunk-header lines
\* in the input, and the j-th hunk of the k-th Diff is the j-th hunk of the
\* k-th file of the input: it has that hunk-header line and exactly the body
\* lines that follow it up to the next hunk header or the end of the file.
C15_HunkConservation ==
    pc \in {"done", "rendered"} =>
        LET files == Positions(input, StartsOldPath)
        IN  /\ Len(self_diffs) = Cardinality(files)
            /\ AllHunks = Cardinality(Positions(input, StartsHunk))
            /\ \A k \in 1..Len(self_diffs) :
                 LET file == Segment(input, files, k)
                     hdrs == Positions(file, StartsHunk)
                     d == self_diffs[k]
                 IN  /\ Len(d.hunks) = Cardinality(hdrs)
                     /\ \A j \in 1..Len(d.hunks) :
                          /\ d.hunks[j].hunk_header = file[Nth(hdrs, j)]
                          /\ d.hunks[j].hunk_list
                               = HunkLines(Segment(file, hdrs, j))

\* C15 happens: a Diff is returned with two hunks under different hunk
\* headers, both holding lines, the first closed by the second's header
C15_Witness ==
    /\ pc = "done"
    /\ \E k \in 1..Len(self_diffs) :
         /\ Len(self_diffs[k].hunks) >= 2
         /\ self_diffs[k].hunks[1].hunk_header # self_diffs[k].hunks[2].hunk_header
         /\ self_diffs[k].hunks[1].hunk_list # <<>>
         /\ self_diffs[k].hunks[2].hunk_list # <<>>

\* C16: a step at a content line (' ', '-' or '+', no path line), taken
\* while no hunk is open, fails with MalformedPatch: the line is not
\* consumed, nothing the parser holds changes, and nothing is returned.
C16_ContentNeedsHunk ==
    [][(/\ pc = "parse" /\ stream # <<>> /\ BodyLine(Head(stream))
        /\ hunk = NoHunk)
         => /\ pc' = "failed"
            /\ error' \in MalformedPatch
            /\ stream' = stream
            /\ UNCHANGED parser_locals
            /\ self_diffs' = <<>>]_vars

\* C16 happens: the parse has failed at a content line that follows a closed
\* Diff's old-path and new-path with no hunk header between
C16_Witness ==
    /\ pc = "failed"
    /\ stream # <<>> /\ BodyLine(Head(stream))
    /\ hunk = NoHunk
    /\ old_path # None /\ new_path # None
    /\ out_diffs # <<>>

\* an iteration of the parser's loop that consumes the head line
Consume ==
    /\ ParserStep /\ pc = "parse" /\ pc' = "parse"
    /\ stream # <<>> /\ stream' = Tail(stream)

\* an iteration of the parser's loop that neither consumes a line nor ends
\* the parse
Stall == ParserStep /\ pc = "parse" /\ pc' = "parse" /\ stream' = stream

\* the two non-consuming steps of the code: a Diff is emitted and the locals
\* are reset, or the open hunk is closed
EmitOrClose ==
    \/ /\ Len(out_diffs') = Len(out_diffs) + 1
       /\ headers' = <<>> /\ old_path' = None /\ hunk' = NoHunk
    \/ /\ hunk # NoHunk /\ hunk' = NoHunk
       /\ hunks' = Append(hunks, hunk) /\ out_diffs' = out_diffs

\* C17: the parser loop terminates on every input; each iteration consumes
\* the head line, raises an error, or is an emit / close-and-reset step after
\* which the next iteration consumes that same line; the stream is always the
\* unconsumed rest of the input, and it is empty when the parse succeeds.
C17_Terminates ==
    /\ <>(pc \notin {"construct", "parse"})
    /\ [][(ParserStep /\ pc = "parse" /\ stream # <<>>) =>
            \/ Consume
            \/ pc' = "failed" /\ stream' = stream
            \/ Stall /\ EmitOrClose /\ (ENABLED Consume)'
                 /\ ~(ENABLED Stall)']_vars
    /\ [](stream = SubSeq(input, Consumed + 1, Len(input)))
    /\ [](pc \in {"done", "rendered"} => stream = <<>>)

\* a parse that succeeded after an emit step and a close step
C17_Witness ==
    /\ pc = "done" /\ stream = <<>>
    /\ Len(out_diffs) = 2
    /\ \E k \in 1..2 : Len(out_diffs[k].hunks) = 2

\* the text a column shows: escape sequences and trailing padding removed
Shown(column) == rstrip(StripAnsi(column), {" "})

\* the text of a hunk line as a column is to show it
Expected(text) == rstrip(normalize(text), {" "})

\* the lines of the only hunk of the only returned Diff all carry attr
OneHunkOf(attr) ==
    /\ Len(self_diffs) = 1 /\ Len(self_diffs[1].hunks) = 1
    /\ \A j \in 1..Len(self_diffs[1].hunks[1].hunk_list) :
           self_diffs[1].hunks[1].hunk_list[j][1] = attr

\* the row of the j-th line of that hunk: the preamble and the hunk header
\* come first
RowOf(j) == output[Len(self_diffs[1].headers) + 3 + j]

\* C18: side by side, the left column of every pure-deletion row and the
\* right column of every pure-insertion row shows the complete text of the
\* line (tabs expanded, newline removed), whatever the text begins with.
C18_ColumnIsLine ==
    (pc = "rendered" /\ mode = "side_by_side") =>
        /\ OneHunkOf("-") =>
             \A j \in 1..Len(self_diffs[1].hunks[1].hunk_list) :
                 Shown(LeftOf(RowOf(j)))
                     = Expected(self_diffs[1].hunks[1].hunk_list[j][2])
        /\ OneHunkOf("+") =>
             \A j \in 1..Len(self_diffs[1].hunks[1].hunk_list) :
                 Shown(RightOf(RowOf(j)))
                     = Expected(self_diffs[1].hunks[1].hunk_list[j][2])

\* a line of mdiff rendered character by character: the base color, then at
\* a start-of-span marker the span's style and the base color again, the
\* marker's kind character dropped, at an end-of-span marker a reset and the
\* base color, every other character as it is, and a final reset; chg is
\* the style of a start-of-change span
SpanMarkup(line, base_color, chg) ==
    ansi_code(base_color)
    \o Concat([p \in 1..Len(line) |->
                 IF line[p] = NUL
                 THEN (IF p < Len(line) /\ line[p + 1] = "^"
                       THEN ansi_code(chg) ELSE ansi_code("reverse"))
                      \o ansi_code(base_color)
                 ELSE IF p > 1 /\ line[p - 1] = NUL THEN <<>>
                 ELSE IF line[p] = SOH
                 THEN ansi_code("reset") \o ansi_code(base_color)
                 ELSE <<line[p]>>])
    \o ansi_code("reset")

\* a row of mdiff that replaces a line by a line
IsReplacement(r) == r.flag /\ r.from[1] # 0 /\ r.to[1] # 0

\* the traditional markup with every replacement row rendered by SpanMarkup
SpanRow(r, chg) ==
    IF IsReplacement(r)
    THEN <<markup_old(<<"-">>) \o SpanMarkup(r.from[2], "red", chg),
           markup_new(<<"+">>) \o SpanMarkup(r.to[2], "green", chg)>>
    ELSE traditional_row(r)

SpanRowInverse(r) == SpanRow(r, "reverse")

SpanRowUnderline(r) == SpanRow(r, "underline")

SpanOutput(f(_)) ==
    Concat([k \in 1..Len(self_diffs) |->
              preamble(self_diffs[k])
              \o Concat([j \in 1..Len(self_diffs[k].hunks) |->
                           <<markup_hunk_header(self_diffs[k].hunks[j].hunk_header)>>
                           \o MapRows(f, mdiff(self_diffs[k].hunks[j]))])])

\* no marker character is left in a line of a replacement row
NoMarkerLeft ==
    \A p \in 1..Len(output) :
        TradReplacement(output[p]) =>
            \A q \in 1..Len(output[p]) : output[p][q] \notin {NUL, SOH}

\* C19 as stated: in a replacement row every change span, a start-of-change
\* span included, is rendered as inverse video in the line's base color, the
\* base color is restored after each end-of-span marker, the text outside
\* the spans is in the base color, and no marker character is left.
C19_SpansInverse ==
    (pc = "rendered" /\ mode = "traditional") =>
        /\ output = SpanOutput(SpanRowInverse)
        /\ NoMarkerLeft

\* C19: in a replacement row every start-of-delete and start-of-insert span
\* is rendered as inverse video in the line's base color and every
\* start-of-change span as underlined in the base color; the base color is
\* restored after each end-of-span marker, the text outside the spans is in
\* the base color, and no marker character is left.
C19_SpansMarked ==
    (pc = "rendered" /\ mode = "traditional") =>
        /\ output = SpanOutput(SpanRowUnderline)
        /\ NoMarkerLeft

\* a replacement row with a start-of-change span has been rendered
C19_Witness ==
    /\ pc = "rendered" /\ mode = "traditional"
    /\ \E k \in 1..Len(self_diffs) : \E j \in 1..Len(self_diffs[k].hunks) :
         LET rows == mdiff(self_diffs[k].hunks[j])
         IN  \E i \in 1..Len(rows) :
               /\ IsReplacement(rows[i])
               /\ \E p \in 1..Len(rows[i].from[2]) :
                      MatchAt(rows[i].from[2], <<NUL, "^">>, p)
    /\ \E p \in 1..Len(output) :
         \E q \in 1..Len(output[p]) :
             MatchAt(output[p], ansi_code("underline") \o ansi_code("red"), q)

\* the objects an emitted Diff keeps: its header list, its hunk list and the
\* Hunks in it
ObjectsOf(d) ==
    {d.headers, d.hunks} \cup {d.in_hunks[j] : j \in 1..Len(d.in_hunks)}

\* the objects the parser's locals are bound to or hold
LocalObjects ==
    ({refs.headers, refs.hunks, refs.hunk}
        \cup {refs.in_hunks[j] : j \in 1..Len(refs.in_hunks)}) \ {NoObject}

\* C20: no parser step changes a Diff that is in the result list, its
\* headers, paths, hunk list or the lines of its hunks; and while the parse
\* goes on, the header list, the hunk list and the hunks the parser works on
\* are not objects of an emitted Diff.
C20_EmittedFrozen ==
    /\ [][\A k \in 1..Len(out_diffs) :
              Len(out_diffs') >= k /\ out_diffs'[k] = out_diffs[k]]_vars
    /\ [](pc = "parse" =>
             \A k \in 1..Len(refs.emitted) :
                 ObjectsOf(refs.emitted[k]) \cap LocalObjects = {})

\* after a Diff with headers was emitted, a header line of the next Diff was
\* consumed
C20_Witness ==
    /\ pc = "parse" /\ Len(out_diffs) = 1
    /\ out_diffs[1].headers # <<>>
    /\ headers # <<>>
    /\ refs.headers # refs.emitted[1].headers

====
